---- MODULE Spec2Model ----
(***************************************************************************)
(* Model of the workout timer of tabata-timer-pro: the useTimer hook       *)
(* (src/hooks.ts), the App-level start/stop/pause controls and the queue   *)
(* consumer of TimerDisplay (src/components/TimerDisplay.tsx).             *)
(*                                                                         *)
(* Time is Date.now() in milliseconds; phase durations are whole seconds.  *)
(***************************************************************************)
EXTENDS Integers, Sequences, FiniteSets, TLC

VARIABLES
    workout,              \* App.currentWorkout, the prop handed to useTimer
    settings,             \* App.settings: soundOn, notificationsOn
    view,                 \* App.view: "setup" | "timer"
    isPaused,             \* App.isPaused
    status,               \* useTimer: status (TimerStatus)
    pendingTransitions,   \* useTimer: pendingTransitions
    lastUpdateRef,        \* useTimer: lastUpdateRef.current (Null or ms)
    leftoverMsRef,        \* useTimer: leftoverMsRef.current
    nextTransitionIdRef,  \* useTimer: nextTransitionIdRef.current
    now,                  \* the wall clock, Date.now()
    hidden,               \* document.hidden
    rendered,             \* pendingTransitions as captured by the last commit
    renderedPaused,       \* the isPaused prop as captured by the last commit
    effectDue,            \* the consumer effect of that commit has not run yet
    delivered,            \* history: ids handed to the consumer, in order
    issued,               \* history: notifications and tones of the last replay
    charged,              \* history: seconds fed to advanceTimer since start
    accountedUntil,       \* history: baseline instant + 1000 * seconds charged since
    pauseMark,            \* history: status when the run was last paused
    lastPhaseSoundRef,    \* TimerDisplay: lastPhaseSoundRef.current
    cuePlays,             \* history: the instants at which requested cues play
    cycleState,           \* WorkoutSetup: the state of sonicModeReducer
    sonicModeCycles,      \* App.settings.sonicModeCycles
    phaseLog,             \* history: protection phases entered since START
    isSonicModeActive,    \* TimerDisplay: the prop isSonicModeActive
    sonicModeState,       \* TimerDisplay: the state of its sonicModeReducer
    micStreamRef,         \* TimerDisplay: micStreamRef.current (Null or a stream)
    micPending,           \* getUserMedia calls that have not settled
    micOpen,              \* streams whose tracks are live
    micStopped,           \* history: the streams stopped, in order
    micNextId             \* history: the number of the next getUserMedia call

\* the cue serializer of TimerDisplay
cueVars == <<lastPhaseSoundRef, cuePlays>>

\* the protection cycle of WorkoutSetup
cycleVars == <<cycleState, sonicModeCycles, phaseLog>>

\* the protection engine of TimerDisplay and its microphone
micVars == <<micStreamRef, micPending, micOpen, micStopped, micNextId>>
displayVars == <<isSonicModeActive, sonicModeState, micVars>>

sideVars == <<cueVars, cycleVars, displayVars>>

vars == <<workout, settings, view, isPaused, status, pendingTransitions,
          lastUpdateRef, leftoverMsRef, nextTransitionIdRef, now, hidden, rendered,
          renderedPaused, effectDue, delivered, issued, charged, accountedUntil,
          pauseMark, sideVars>>

----------------------------------------------------------------------------
\* Bounds of the model

MaxSets == 2
MaxRounds == 2
MaxClock == 9000
MaxElapsed == 4
MaxSplit == 3

\* Program constants

PREPARE_TIME == 5
Null == 0 - 1
NoMark == [set |-> FALSE]
DefaultSettings == [soundOn |-> TRUE, notificationsOn |-> FALSE]

\* Input domains
WorkTimes == {0, 2}
RestTimes == {0, 1}
SetRestTimes == {0, 1}
ClockSteps == {500, 1000, 3500}

Rounds == [workTime : WorkTimes, restTime : RestTimes]

RoundLists == UNION { [1..n -> Rounds] : n \in 1..MaxRounds }

Workouts == [sets : 1..MaxSets, setRestTime : SetRestTimes, rounds : RoundLists]

Round(w, r) == [workTime |-> w, restTime |-> r]

\* the workouts run under the full scheduler: with and without rests, with
\* zero-length phases, and with every duration zero
ScheduledWorkouts ==
    { [sets |-> 1, setRestTime |-> 0, rounds |-> <<Round(1, 0)>>],
      [sets |-> 1, setRestTime |-> 1, rounds |-> <<Round(1, 1)>>],
      [sets |-> 2, setRestTime |-> 1, rounds |-> <<Round(1, 0)>>],
      [sets |-> 1, setRestTime |-> 0, rounds |-> <<Round(0, 1), Round(1, 0)>>],
      [sets |-> 2, setRestTime |-> 0, rounds |-> <<Round(0, 0)>>] }

Phases == {"prepare", "work", "rest", "set_rest", "finished"}

----------------------------------------------------------------------------
\* useTimer: the initial TimerStatus

InitialStatus ==
    [phase |-> "prepare", currentSet |-> 1, currentRoundIndex |-> 0,
     timeLeftInPhase |-> PREPARE_TIME, totalPhaseTime |-> PREPARE_TIME,
     workoutCompleted |-> FALSE]

\* workout.rounds[i] with the 0-based index of the source
RoundAt(w, i) == w.rounds[i + 1]

\* the mutation: the last round of any set counts as the final exercise
isFinalExerciseAnySet(currentStatus) ==
    currentStatus.currentRoundIndex = Len(workout.rounds) - 1

isFinalExercise(currentStatus) ==
    /\ currentStatus.currentSet = workout.sets
    /\ currentStatus.currentRoundIndex = Len(workout.rounds) - 1

\* the mutation: the phase becomes finished but the flag is not raised
finishedUnflagged(currentStatus) ==
    [currentStatus EXCEPT !.phase = "finished",
                          !.timeLeftInPhase = 0, !.totalPhaseTime = 0]

\* the mutation: the flag is raised but the phase stays what it was
finishedKeepsPhase(currentStatus) ==
    [currentStatus EXCEPT !.workoutCompleted = TRUE,
                          !.timeLeftInPhase = 0, !.totalPhaseTime = 0]

\* the status returned by the three "finished" branches
finished(currentStatus) ==
    [currentStatus EXCEPT !.phase = "finished", !.workoutCompleted = TRUE,
                          !.timeLeftInPhase = 0, !.totalPhaseTime = 0]

\* the status returned by the rest and set_rest branches
enter(currentStatus, phase, t) ==
    [currentStatus EXCEPT !.phase = phase, !.timeLeftInPhase = t,
                          !.totalPhaseTime = t]

\* the mutation: the sets are counted from 0
fromPrepareSetZero(currentStatus) ==
    LET nextRound == RoundAt(workout, 0) IN
    [currentStatus EXCEPT !.phase = "work", !.currentSet = 0,
                          !.currentRoundIndex = 0,
                          !.timeLeftInPhase = nextRound.workTime,
                          !.totalPhaseTime = nextRound.workTime]

\* case 'prepare'
fromPrepare(currentStatus) ==
    LET nextRound == RoundAt(workout, 0) IN
    [currentStatus EXCEPT !.phase = "work", !.currentSet = 1,
                          !.currentRoundIndex = 0,
                          !.timeLeftInPhase = nextRound.workTime,
                          !.totalPhaseTime = nextRound.workTime]

\* the mutation: work is always followed by rest, also when restTime is 0
fromWorkAlwaysRest(currentStatus) ==
    LET round == RoundAt(workout, currentStatus.currentRoundIndex) IN
    enter(currentStatus, "rest", round.restTime)

\* case 'work'
fromWork(currentStatus) ==
    LET round == RoundAt(workout, currentStatus.currentRoundIndex) IN
    IF round.restTime <= 0
    THEN IF isFinalExercise(currentStatus)
         THEN finished(currentStatus)
         ELSE enter(currentStatus, "set_rest", workout.setRestTime)
    ELSE enter(currentStatus, "rest", round.restTime)

\* case 'rest'
fromRest(currentStatus) ==
    IF isFinalExercise(currentStatus)
    THEN finished(currentStatus)
    ELSE enter(currentStatus, "set_rest", workout.setRestTime)

\* the mutation: the round index never wraps into the next set
fromSetRestNoWrap(currentStatus) ==
    LET nextRoundIndex == currentStatus.currentRoundIndex + 1 IN
    IF nextRoundIndex >= Len(workout.rounds)
    THEN finished(currentStatus)
    ELSE LET nextRound == RoundAt(workout, nextRoundIndex) IN
         [currentStatus EXCEPT !.phase = "work",
                               !.currentRoundIndex = nextRoundIndex,
                               !.timeLeftInPhase = nextRound.workTime,
                               !.totalPhaseTime = nextRound.workTime]

\* case 'set_rest'
fromSetRest(currentStatus) ==
    LET wraps == currentStatus.currentRoundIndex + 1 >= Len(workout.rounds)
        nextRoundIndex == IF wraps THEN 0 ELSE currentStatus.currentRoundIndex + 1
        nextSet == IF wraps THEN currentStatus.currentSet + 1
                            ELSE currentStatus.currentSet
    IN  IF nextSet > workout.sets
        THEN finished(currentStatus)
        ELSE LET nextRound == RoundAt(workout, nextRoundIndex) IN
             [currentStatus EXCEPT !.phase = "work", !.currentSet = nextSet,
                                   !.currentRoundIndex = nextRoundIndex,
                                   !.timeLeftInPhase = nextRound.workTime,
                                   !.totalPhaseTime = nextRound.workTime]

\* the mutation: a finished status starts the run again
transitionPhaseRestarts(currentStatus) ==
    CASE currentStatus.phase = "prepare" -> fromPrepare(currentStatus)
      [] currentStatus.phase = "work" -> fromWork(currentStatus)
      [] currentStatus.phase = "rest" -> fromRest(currentStatus)
      [] currentStatus.phase = "set_rest" -> fromSetRest(currentStatus)
      [] OTHER -> InitialStatus

transitionPhase(currentStatus) ==
    CASE currentStatus.phase = "prepare" -> fromPrepare(currentStatus)
      [] currentStatus.phase = "work" -> fromWork(currentStatus)
      [] currentStatus.phase = "rest" -> fromRest(currentStatus)
      [] currentStatus.phase = "set_rest" -> fromSetRest(currentStatus)
      [] OTHER -> currentStatus

\* the mutation: the event is stamped a second after the boundary
pushEventLate(id, nextStatus, timestampCursor) ==
    [id |-> id, phase |-> nextStatus.phase, set |-> nextStatus.currentSet,
     roundIndex |-> nextStatus.currentRoundIndex,
     occurredAt |-> timestampCursor + 1000]

\* advanceTimer: the event pushed for the phase entered
pushEvent(id, nextStatus, timestampCursor) ==
    [id |-> id, phase |-> nextStatus.phase, set |-> nextStatus.currentSet,
     roundIndex |-> nextStatus.currentRoundIndex, occurredAt |-> timestampCursor]

\* advanceTimer: the while loop, one iteration per unfolding
RECURSIVE advanceLoop(_, _, _, _, _)
advanceLoop(statusSnapshot, remaining, events, timestampCursor, nextId) ==
    IF ~(remaining > 0 /\ ~statusSnapshot.workoutCompleted)
    THEN [status |-> statusSnapshot, events |-> events, nextId |-> nextId]
    ELSE IF statusSnapshot.timeLeftInPhase <= 0
    THEN LET nextStatus == transitionPhase(statusSnapshot) IN
         IF nextStatus = statusSnapshot
         THEN [status |-> statusSnapshot, events |-> events, nextId |-> nextId]
         ELSE advanceLoop(nextStatus, remaining,
                          Append(events, pushEvent(nextId, nextStatus, timestampCursor)),
                          timestampCursor, nextId + 1)
    ELSE IF remaining < statusSnapshot.timeLeftInPhase
    THEN [status |-> [statusSnapshot EXCEPT !.timeLeftInPhase = @ - remaining],
          events |-> events, nextId |-> nextId]
    ELSE LET cursor == timestampCursor + statusSnapshot.timeLeftInPhase * 1000
             rest == remaining - statusSnapshot.timeLeftInPhase
             expired == [statusSnapshot EXCEPT !.timeLeftInPhase = 0]
             nextStatus == transitionPhase(expired)
         IN  IF nextStatus = expired
             THEN [status |-> expired, events |-> events, nextId |-> nextId]
             ELSE advanceLoop(nextStatus, rest,
                              Append(events, pushEvent(nextId, nextStatus, cursor)),
                              cursor, nextId + 1)

\* the mutation: the loop tests neither workoutCompleted nor lack of progress
RECURSIVE loopIterationsNoExit(_, _, _)
loopIterationsNoExit(statusSnapshot, remaining, fuel) ==
    IF ~(remaining > 0) THEN 0
    ELSE IF fuel = 0 THEN Null
    ELSE IF statusSnapshot.timeLeftInPhase <= 0
    THEN LET more == loopIterationsNoExit(transitionPhase(statusSnapshot),
                                          remaining, fuel - 1)
         IN  IF more = Null THEN Null ELSE more + 1
    ELSE IF remaining < statusSnapshot.timeLeftInPhase THEN 1
    ELSE LET expired == [statusSnapshot EXCEPT !.timeLeftInPhase = 0]
             more == loopIterationsNoExit(transitionPhase(expired),
                         remaining - statusSnapshot.timeLeftInPhase, fuel - 1)
         IN  IF more = Null THEN Null ELSE more + 1

\* advanceTimer: the number of times the body of the while loop runs, or Null
\* when it runs more than fuel times
RECURSIVE loopIterations(_, _, _)
loopIterations(statusSnapshot, remaining, fuel) ==
    IF ~(remaining > 0 /\ ~statusSnapshot.workoutCompleted) THEN 0
    ELSE IF fuel = 0 THEN Null
    ELSE IF statusSnapshot.timeLeftInPhase <= 0
    THEN LET nextStatus == transitionPhase(statusSnapshot) IN
         IF nextStatus = statusSnapshot THEN 1
         ELSE LET more == loopIterations(nextStatus, remaining, fuel - 1)
              IN  IF more = Null THEN Null ELSE more + 1
    ELSE IF remaining < statusSnapshot.timeLeftInPhase THEN 1
    ELSE LET expired == [statusSnapshot EXCEPT !.timeLeftInPhase = 0]
             nextStatus == transitionPhase(expired)
         IN  IF nextStatus = expired THEN 1
             ELSE LET more == loopIterations(nextStatus,
                                  remaining - statusSnapshot.timeLeftInPhase, fuel - 1)
                  IN  IF more = Null THEN Null ELSE more + 1

\* the mutation: every poll counts as one second, whatever time has elapsed
advanceTimerPerTick(currentStatus, elapsedSeconds, t, nextId) ==
    IF elapsedSeconds <= 0
    THEN [status |-> currentStatus, events |-> <<>>, nextId |-> nextId]
    ELSE advanceLoop(currentStatus, 1, <<>>, t - 1000, nextId)

advanceTimer(currentStatus, elapsedSeconds, t, nextId) ==
    IF elapsedSeconds <= 0
    THEN [status |-> currentStatus, events |-> <<>>, nextId |-> nextId]
    ELSE advanceLoop(currentStatus, elapsedSeconds, <<>>,
                     t - elapsedSeconds * 1000, nextId)

----------------------------------------------------------------------------
\* State of a freshly mounted TimerDisplay / useTimer

Mounted ==
    /\ status = InitialStatus
    /\ pendingTransitions = <<>>
    /\ lastUpdateRef = Null
    /\ leftoverMsRef = 0
    /\ nextTransitionIdRef = 1
    /\ rendered = <<>>
    /\ renderedPaused = FALSE
    /\ effectDue = FALSE
    /\ delivered = <<>>
    /\ issued = <<>>
    /\ charged = 0
    /\ accountedUntil = Null
    /\ pauseMark = NoMark

\* nothing requested of the cue serializer yet
CuesIdle ==
    /\ lastPhaseSoundRef = [t |-> 0, src |-> ""]
    /\ cuePlays = <<>>

LISTEN_DURATION == 3600
EAR_REST_DURATION == 900
EXTENDED_BREAK_DURATION == 3600

initialSonicModeState ==
    [isActive |-> FALSE, phase |-> "inactive", timeLeft |-> 0, cycleCount |-> 0]

\* the protection cycle was never started; the settings hold the default
CycleIdle ==
    /\ cycleState = initialSonicModeState
    /\ sonicModeCycles = 3
    /\ phaseLog = <<>>

\* TimerDisplay: initialSonicModeState of its own reducer
displayInitialState ==
    [phase |-> "listen", timeLeft |-> 3600, cycleCount |-> 1,
     isActive |-> FALSE]

\* no getUserMedia call was made
MicIdle ==
    /\ micStreamRef = Null
    /\ micPending = {}
    /\ micOpen = {}
    /\ micStopped = <<>>
    /\ micNextId = 1

\* TimerDisplay mounted without the protection cycle
DisplayIdle ==
    /\ isSonicModeActive = FALSE
    /\ sonicModeState = displayInitialState
    /\ MicIdle

SideIdle == CuesIdle /\ CycleIdle /\ DisplayIdle

InitWith(ws) ==
    /\ workout \in ws
    /\ SideIdle
    /\ settings = DefaultSettings
    /\ view = "setup"
    /\ isPaused = TRUE
    /\ now = 0
    /\ hidden = FALSE
    /\ Mounted

Init == InitWith(ScheduledWorkouts)

InitAdvance == InitWith(Workouts)

\* the effect of useTimer is installed: interval and visibility listener run
TimerActive == view = "timer" /\ ~isPaused /\ ~status.workoutCompleted

hookVars == <<status, pendingTransitions, lastUpdateRef, leftoverMsRef,
              nextTransitionIdRef, charged, accountedUntil, pauseMark>>
consumerVars == <<rendered, renderedPaused, effectDue, delivered, issued>>

\* App.handleStartWorkout: show the timer view, unpaused
handleStartWorkout ==
    /\ view = "setup"
    /\ view' = "timer"
    /\ isPaused' = FALSE
    /\ UNCHANGED <<sideVars, settings, workout, now, hidden>>
    /\ UNCHANGED hookVars
    /\ UNCHANGED consumerVars

\* history: the mark of the last pause is kept over the first baseline taken
\* after the resume (by a poll or by hide) and dropped by the poll after it
basedMark == IF pauseMark.set THEN [pauseMark EXCEPT !.based = TRUE] ELSE pauseMark
polledMark == IF pauseMark.set /\ pauseMark.based THEN NoMark ELSE basedMark

\* the mutation: the milliseconds left over by a poll are not carried on
tickAtDropsLeftover(t) ==
    /\ pauseMark' = polledMark
    /\ IF lastUpdateRef = Null
       THEN /\ lastUpdateRef' = t
            /\ leftoverMsRef' = 0
            /\ accountedUntil' = t
            /\ UNCHANGED <<status, pendingTransitions, nextTransitionIdRef, charged>>
       ELSE LET deltaMs == t - lastUpdateRef + leftoverMsRef
                elapsedSeconds == deltaMs \div 1000
                r == advanceTimer(status, elapsedSeconds, t, nextTransitionIdRef)
            IN  /\ leftoverMsRef' = 0
                /\ lastUpdateRef' = t
                /\ IF elapsedSeconds > 0
                   THEN /\ status' = r.status
                        /\ pendingTransitions' = pendingTransitions \o r.events
                        /\ nextTransitionIdRef' = r.nextId
                        /\ charged' = charged + elapsedSeconds
                        /\ accountedUntil' = accountedUntil + 1000 * elapsedSeconds
                   ELSE UNCHANGED <<status, pendingTransitions, nextTransitionIdRef,
                                    charged, accountedUntil>>

\* the mutation: the distance between the two clock readings counts as elapsed
\* time, whichever of them is the earlier
tickAtAbsoluteDelta(t) ==
    /\ pauseMark' = polledMark
    /\ IF lastUpdateRef = Null
       THEN /\ lastUpdateRef' = t
            /\ leftoverMsRef' = 0
            /\ accountedUntil' = t
            /\ UNCHANGED <<status, pendingTransitions, nextTransitionIdRef, charged>>
       ELSE LET deltaMs == (IF t < lastUpdateRef THEN lastUpdateRef - t
                                                 ELSE t - lastUpdateRef) + leftoverMsRef
                elapsedSeconds == deltaMs \div 1000
                r == advanceTimer(status, elapsedSeconds, t, nextTransitionIdRef)
            IN  /\ leftoverMsRef' = deltaMs - elapsedSeconds * 1000
                /\ lastUpdateRef' = t
                /\ IF elapsedSeconds > 0
                   THEN /\ status' = r.status
                        /\ pendingTransitions' = pendingTransitions \o r.events
                        /\ nextTransitionIdRef' = r.nextId
                        /\ charged' = charged + elapsedSeconds
                        /\ accountedUntil' = accountedUntil + 1000 * elapsedSeconds
                   ELSE UNCHANGED <<status, pendingTransitions, nextTransitionIdRef,
                                    charged, accountedUntil>>

\* tick, reading the clock as t
tickAt(t) ==
    /\ pauseMark' = polledMark
    /\ IF lastUpdateRef = Null
       THEN /\ lastUpdateRef' = t
            /\ leftoverMsRef' = 0
            /\ accountedUntil' = t
            /\ UNCHANGED <<status, pendingTransitions, nextTransitionIdRef, charged>>
       ELSE LET deltaMs == t - lastUpdateRef + leftoverMsRef
                elapsedSeconds == deltaMs \div 1000
                r == advanceTimer(status, elapsedSeconds, t, nextTransitionIdRef)
            IN  /\ leftoverMsRef' = deltaMs - elapsedSeconds * 1000
                /\ lastUpdateRef' = t
                /\ IF elapsedSeconds > 0
                   THEN /\ status' = r.status
                        /\ pendingTransitions' = pendingTransitions \o r.events
                        /\ nextTransitionIdRef' = r.nextId
                        /\ charged' = charged + elapsedSeconds
                        /\ accountedUntil' = accountedUntil + 1000 * elapsedSeconds
                   ELSE UNCHANGED <<status, pendingTransitions, nextTransitionIdRef,
                                    charged, accountedUntil>>

\* the interval callback
tick ==
    /\ TimerActive
    /\ tickAt(now)
    /\ UNCHANGED <<sideVars, settings, workout, view, isPaused, now, hidden>>
    /\ UNCHANGED consumerVars

\* time passes
clockAdvance(d) ==
    /\ now + d <= MaxClock
    /\ now' = now + d
    /\ UNCHANGED <<sideVars, settings, workout, view, isPaused, hidden>>
    /\ UNCHANGED hookVars
    /\ UNCHANGED consumerVars

\* d whole seconds pass and the interval callback runs
feed(e) ==
    /\ TimerActive
    /\ lastUpdateRef # Null
    /\ now' = now + 1000 * e
    /\ tickAt(now + 1000 * e)
    /\ UNCHANGED <<sideVars, settings, workout, view, isPaused, hidden>>
    /\ UNCHANGED consumerVars

\* the mutation: pausing leaves lastUpdateRef and leftoverMsRef as they are
pauseKeepsBaseline ==
    /\ view = "timer"
    /\ ~isPaused
    /\ isPaused' = TRUE
    /\ pauseMark' = [set |-> TRUE, st |-> status, based |-> FALSE, at |-> now]
    /\ UNCHANGED <<sideVars, settings, workout, view, now, hidden, status,
                   pendingTransitions, nextTransitionIdRef, charged,
                   lastUpdateRef, leftoverMsRef, accountedUntil>>
    /\ UNCHANGED consumerVars

\* the pause button, setPaused(!isPaused), pausing: the effect's cleanup runs
pause ==
    /\ view = "timer"
    /\ ~isPaused
    /\ isPaused' = TRUE
    /\ lastUpdateRef' = Null
    /\ leftoverMsRef' = 0
    /\ accountedUntil' = Null
    /\ pauseMark' = [set |-> TRUE, st |-> status, based |-> FALSE, at |-> now]
    /\ UNCHANGED <<sideVars, settings, workout, view, now, hidden, status,
                   pendingTransitions, nextTransitionIdRef, charged>>
    /\ UNCHANGED consumerVars

\* the pause button, resuming: the effect is installed again
resume ==
    /\ view = "timer"
    /\ isPaused
    /\ isPaused' = FALSE
    /\ UNCHANGED <<sideVars, settings, workout, view, now, hidden>>
    /\ UNCHANGED hookVars
    /\ UNCHANGED consumerVars

\* the effect re-runs once the completed status is rendered: refs are cleared
completionCleanup ==
    /\ view = "timer"
    /\ status.workoutCompleted
    /\ lastUpdateRef # Null
    /\ lastUpdateRef' = Null
    /\ leftoverMsRef' = 0
    /\ accountedUntil' = Null
    /\ UNCHANGED <<sideVars, settings, workout, view, isPaused, now, hidden,
                   status, pendingTransitions, nextTransitionIdRef, charged,
                   pauseMark>>
    /\ UNCHANGED consumerVars

\* handleVisibilityChange, document.hidden became true
hide ==
    /\ ~hidden
    /\ hidden' = TRUE
    /\ IF TimerActive
       THEN /\ lastUpdateRef' = now
            /\ accountedUntil' = IF lastUpdateRef = Null THEN now ELSE accountedUntil
            /\ pauseMark' = basedMark
            /\ UNCHANGED <<status, pendingTransitions, leftoverMsRef,
                           nextTransitionIdRef, charged>>
       ELSE UNCHANGED hookVars
    /\ UNCHANGED <<sideVars, settings, workout, view, isPaused, now>>
    /\ UNCHANGED consumerVars

\* handleVisibilityChange, document.hidden became false: tick() at once
show ==
    /\ hidden
    /\ hidden' = FALSE
    /\ IF TimerActive THEN tickAt(now) ELSE UNCHANGED hookVars
    /\ UNCHANGED <<sideVars, settings, workout, view, isPaused, now>>
    /\ UNCHANGED consumerVars

\* the mutation: stopping leaves the view but resets nothing of the timer
handleStopKeepsTimer ==
    /\ view = "timer"
    /\ view' = "setup"
    /\ UNCHANGED <<sideVars, settings, workout, isPaused, now, hidden>>
    /\ UNCHANGED hookVars
    /\ UNCHANGED consumerVars

\* handleStop (resetTimer, then onStop) and the onStop timeout after completion:
\* the timer view is unmounted, the next start mounts a fresh useTimer
handleStop ==
    /\ view = "timer"
    /\ view' = "setup"
    /\ status' = InitialStatus
    /\ pendingTransitions' = <<>>
    /\ lastUpdateRef' = Null
    /\ leftoverMsRef' = 0
    /\ nextTransitionIdRef' = 1
    /\ rendered' = <<>>
    /\ renderedPaused' = FALSE
    /\ effectDue' = FALSE
    /\ delivered' = <<>>
    /\ issued' = <<>>
    /\ charged' = 0
    /\ accountedUntil' = Null
    /\ pauseMark' = NoMark
    /\ UNCHANGED <<sideVars, settings, workout, isPaused, now, hidden>>

\* a render of TimerDisplay commits: the queue consumer's effect closes over
\* the pendingTransitions and the isPaused of this render (both are among the
\* effect's dependencies)
renderCommit ==
    /\ view = "timer"
    /\ rendered # pendingTransitions \/ renderedPaused # isPaused
    /\ rendered' = pendingTransitions
    /\ renderedPaused' = isPaused
    /\ effectDue' = TRUE
    /\ UNCHANGED <<sideVars, settings, workout, view, isPaused, now, hidden,
                   delivered, issued>>
    /\ UNCHANGED hookVars

eventIds(events) == [i \in 1..Len(events) |-> events[i].id]

\* the queue consumer: the announcement of an event
announcement(event) ==
    CASE event.phase = "prepare" -> "PREPARE"
      [] event.phase = "work" -> "WORK"
      [] event.phase = "rest" -> "REST"
      [] event.phase = "set_rest" -> "SET REST"
      [] event.phase = "finished" -> "FINISHED!"
      [] OTHER -> ""

\* the queue consumer: what the body of forEach issues for one event
outputsOf(event) ==
    (IF announcement(event) # "" /\ settings.notificationsOn
     THEN << [kind |-> "notification", phase |-> event.phase] >> ELSE <<>>)
    \o
    (IF settings.soundOn /\ event.phase # "finished"
     THEN << [kind |-> "tone", phase |-> event.phase] >> ELSE <<>>)

RECURSIVE replayAll(_)
replayAll(transitions) ==
    IF transitions = <<>> THEN <<>>
    ELSE outputsOf(Head(transitions)) \o replayAll(Tail(transitions))

\* the mutation: the events are replayed whether the run is paused or not
replayAlsoPaused(transitions, paused) == replayAll(transitions)

\* the queue consumer: transitions.forEach, with `if (isPaused) return` first
replay(transitions, paused) ==
    IF paused THEN <<>> ELSE replayAll(transitions)

\* the queue consumer's effect: copy the rendered queue, clearTransitions(),
\* replay the copy
consumeTransitions ==
    /\ view = "timer"
    /\ effectDue
    /\ effectDue' = FALSE
    /\ IF Len(rendered) = 0
       THEN UNCHANGED <<pendingTransitions, delivered, issued>>
       ELSE /\ pendingTransitions' = <<>>
            /\ delivered' = delivered \o eventIds(rendered)
            /\ issued' = replay(rendered, renderedPaused)
    /\ UNCHANGED <<sideVars, settings, workout, view, isPaused, now, hidden,
                   rendered, renderedPaused, status, lastUpdateRef,
                   leftoverMsRef, nextTransitionIdRef, charged, accountedUntil,
                   pauseMark>>

Next ==
    \/ handleStartWorkout
    \/ tick
    \/ \E d \in ClockSteps : clockAdvance(d)
    \/ pause
    \/ resume
    \/ completionCleanup
    \/ hide
    \/ show
    \/ handleStop
    \/ renderCommit
    \/ consumeTransitions

Spec == Init /\ [][Next]_vars

\* the hook under its scheduler and controls, the queue consumer left out
NextTimer ==
    \/ handleStartWorkout
    \/ tick
    \/ \E d \in ClockSteps : clockAdvance(d)
    \/ pause
    \/ resume
    \/ completionCleanup
    \/ hide
    \/ show
    \/ handleStop

SpecTimer == Init /\ [][NextTimer]_vars

\* the run under fair scheduling. useTimer reads the clock only through its
\* difference from lastUpdateRef, which every installation of the effect
\* clears, so the clock is counted from the last resume: the readings stay
\* bounded however long the run is paused and resumed.
PollSteps == {500, 1000}

\* d ms pass and the interval callback runs
pollAfter(d) ==
    /\ TimerActive
    /\ lastUpdateRef # Null
    /\ now' = now + d
    /\ tickAt(now + d)
    /\ UNCHANGED <<sideVars, settings, workout, view, isPaused, hidden>>
    /\ UNCHANGED consumerVars

\* the pause button, resuming; the clock is read from this instant on
resumeAtOrigin ==
    /\ view = "timer"
    /\ isPaused
    /\ isPaused' = FALSE
    /\ now' = 0
    /\ UNCHANGED <<sideVars, settings, workout, view, hidden>>
    /\ UNCHANGED hookVars
    /\ UNCHANGED consumerVars

NextLive ==
    \/ handleStartWorkout
    \/ tick
    \/ \E d \in PollSteps : pollAfter(d)
    \/ pause
    \/ resumeAtOrigin
    \/ completionCleanup

\* the run is started; polls keep occurring, the baseline poll and the polls
\* after it with the clock advanced, whenever the interval is set again and
\* again; a paused run is resumed
SpecLive ==
    /\ Init
    /\ [][NextLive]_vars
    /\ WF_vars(handleStartWorkout)
    /\ SF_vars(tick)
    /\ SF_vars(\E d \in PollSteps : pollAfter(d))
    /\ WF_vars(resumeAtOrigin)

\* the catch-up advancer driven by whole-second polls only
NextAdvance ==
    \/ handleStartWorkout
    \/ tick
    \/ \E e \in 1..MaxElapsed : feed(e)

SpecAdvance == InitAdvance /\ [][NextAdvance]_vars

\* the two example workouts of the specification, next to the scheduled ones
WorkoutC6 == [sets |-> 2, setRestTime |-> 30, rounds |-> <<Round(10, 5), Round(10, 5)>>]
WorkoutC7 == [sets |-> 1, setRestTime |-> 0, rounds |-> <<Round(20, 0)>>]

ExampleSteps == {1, 7, 50, 200}

InitExamples == InitWith({WorkoutC6, WorkoutC7} \cup ScheduledWorkouts)

NextExamples ==
    \/ handleStartWorkout
    \/ tick
    \/ \E e \in ExampleSteps : feed(e)

SpecExamples == InitExamples /\ [][NextExamples]_vars

\* polls at any multiple of the 250 ms interval, the baseline poll being taken
\* at instant 0; no pause, stop or visibility change
CadenceSteps == {250, 750, 1000, 2250}

cadenceAdvance(d) ==
    /\ lastUpdateRef # Null
    /\ clockAdvance(d)

NextCadence ==
    \/ handleStartWorkout
    \/ tick
    \/ \E d \in CadenceSteps : cadenceAdvance(d)

SpecCadence == Init /\ [][NextCadence]_vars

\* workouts the setup form hands to the timer with the sets field at 0: the
\* field's min="1" is an attribute of the input, no code checks the value
UncheckedWorkouts == [sets : {0}, setRestTime : SetRestTimes, rounds : RoundLists]

InitUnchecked == InitWith(UncheckedWorkouts)

SpecUnchecked == InitUnchecked /\ [][NextAdvance]_vars

\* the wall clock has been set back by d ms since the last poll (clock skew)
\* and the interval callback runs
SkewSteps == {500, 1500}

skewedPoll(d) ==
    /\ TimerActive
    /\ lastUpdateRef # Null
    /\ now - d >= 0
    /\ now' = now - d
    /\ tickAt(now - d)
    /\ UNCHANGED <<sideVars, settings, workout, view, isPaused, hidden>>
    /\ UNCHANGED consumerVars

NextSkew ==
    \/ handleStartWorkout
    \/ tick
    \/ \E e \in 1..MaxElapsed : feed(e)
    \/ \E d \in SkewSteps : skewedPoll(d)

SpecSkew == Init /\ [][NextSkew]_vars

\* the queue consumer under every combination of the two settings it reads
ReplaySettings == [soundOn : BOOLEAN, notificationsOn : BOOLEAN]

InitReplay ==
    /\ workout \in ScheduledWorkouts
    /\ SideIdle
    /\ settings \in ReplaySettings
    /\ view = "setup"
    /\ isPaused = TRUE
    /\ now = 0
    /\ hidden = FALSE
    /\ Mounted

NextReplay ==
    \/ handleStartWorkout
    \/ tick
    \/ \E e \in 1..MaxElapsed : feed(e)
    \/ pause
    \/ resume
    \/ renderCommit
    \/ consumeTransitions

SpecReplay == InitReplay /\ [][NextReplay]_vars

----------------------------------------------------------------------------
\* TimerDisplay: requestPhaseSound, the serializer of the phase cues

\* the workout timer, its controls and its queue consumer, but for the clock
timerVars == <<workout, settings, view, isPaused, hidden, hookVars, consumerVars>>

MaxCues == 3
MaxCueClock == 2000

CueWindow == 600
CueDelay == 350
CueSources == {"tabata", "sonic"}
CueSteps == {250, 600}

\* requestPhaseSound at instant t: the new lastPhaseSoundRef.current and the
\* instant at which fn() is called
phaseSound(last, t, src) ==
    IF t - last.t < CueWindow
    THEN [last |-> [t |-> t + CueDelay, src |-> src], playAt |-> t + CueDelay]
    ELSE [last |-> [t |-> t, src |-> src], playAt |-> t]

\* requestPhaseSound called for each of srcs in turn within one task
RECURSIVE phaseSounds(_, _, _)
phaseSounds(last, t, srcs) ==
    IF srcs = <<>> THEN [last |-> last, plays |-> <<>>]
    ELSE LET first == phaseSound(last, t, Head(srcs))
             rest == phaseSounds(first.last, t, Tail(srcs))
         IN  [last |-> rest.last, plays |-> <<first.playAt>> \o rest.plays]

CueRequests == UNION { [1..n -> CueSources] : n \in 1..MaxCues }

\* one task requests the cues srcs: a drain of the queue replaying Len(srcs)
\* events, or a workout cue and a protection cue at the same instant
requestCues(srcs) ==
    /\ Len(cuePlays) + Len(srcs) <= MaxCues + 2
    /\ LET r == phaseSounds(lastPhaseSoundRef, now, srcs)
       IN  /\ lastPhaseSoundRef' = r.last
           /\ cuePlays' = cuePlays \o r.plays
    /\ UNCHANGED <<timerVars, now, cycleVars, displayVars>>

cueClockAdvance(d) ==
    /\ now + d <= MaxCueClock
    /\ now' = now + d
    /\ UNCHANGED <<timerVars, sideVars>>

\* the first cue is requested a window or more after the page was loaded
InitCues ==
    /\ workout = WorkoutC7
    /\ settings = DefaultSettings
    /\ view = "setup"
    /\ isPaused = TRUE
    /\ now = CueWindow
    /\ hidden = FALSE
    /\ Mounted
    /\ SideIdle

NextCues ==
    \/ \E srcs \in CueRequests : requestCues(srcs)
    \/ \E d \in CueSteps : cueClockAdvance(d)

SpecCues == InitCues /\ [][NextCues]_vars

----------------------------------------------------------------------------
\* WorkoutSetup: sonicModeReducer, the protection cycle with extendedBreak

MaxCycles == 3
MaxLog == 8

\* the mutation: START begins with an ear rest's time
onSTARTShort ==
    [isActive |-> TRUE, phase |-> "listen", timeLeft |-> EAR_REST_DURATION,
     cycleCount |-> 1]

onSTART ==
    [isActive |-> TRUE, phase |-> "listen", timeLeft |-> LISTEN_DURATION,
     cycleCount |-> 1]

onSTOP == initialSonicModeState

onTICK(state) ==
    IF ~state.isActive \/ state.timeLeft <= 0 THEN state
    ELSE [state EXCEPT !.timeLeft = state.timeLeft - 1]

\* the mutation: the ear rest lasts the 600 s of the other reducer
onTRANSITIONShortRest(state, cycles) ==
    IF ~state.isActive THEN state
    ELSE CASE state.phase = "listen" ->
                IF state.cycleCount >= cycles
                THEN [state EXCEPT !.phase = "extendedBreak",
                                   !.timeLeft = EXTENDED_BREAK_DURATION]
                ELSE [state EXCEPT !.phase = "earRest", !.timeLeft = 600]
           [] state.phase = "earRest" ->
                [state EXCEPT !.phase = "listen",
                              !.timeLeft = LISTEN_DURATION,
                              !.cycleCount = state.cycleCount + 1]
           [] state.phase = "extendedBreak" ->
                [state EXCEPT !.phase = "listen",
                              !.timeLeft = LISTEN_DURATION,
                              !.cycleCount = 1]
           [] OTHER -> state

\* the mutation: the extended break does not reset the count of cycles
onTRANSITIONKeepsCount(state, cycles) ==
    IF ~state.isActive THEN state
    ELSE CASE state.phase = "listen" ->
                IF state.cycleCount >= cycles
                THEN [state EXCEPT !.phase = "extendedBreak",
                                   !.timeLeft = EXTENDED_BREAK_DURATION]
                ELSE [state EXCEPT !.phase = "earRest",
                                   !.timeLeft = EAR_REST_DURATION]
           [] state.phase = "earRest" ->
                [state EXCEPT !.phase = "listen",
                              !.timeLeft = LISTEN_DURATION,
                              !.cycleCount = state.cycleCount + 1]
           [] state.phase = "extendedBreak" ->
                [state EXCEPT !.phase = "listen",
                              !.timeLeft = LISTEN_DURATION]
           [] OTHER -> state

onTRANSITION(state, cycles) ==
    IF ~state.isActive THEN state
    ELSE CASE state.phase = "listen" ->
                IF state.cycleCount >= cycles
                THEN [state EXCEPT !.phase = "extendedBreak",
                                   !.timeLeft = EXTENDED_BREAK_DURATION]
                ELSE [state EXCEPT !.phase = "earRest",
                                   !.timeLeft = EAR_REST_DURATION]
           [] state.phase = "earRest" ->
                [state EXCEPT !.phase = "listen",
                              !.timeLeft = LISTEN_DURATION,
                              !.cycleCount = state.cycleCount + 1]
           [] state.phase = "extendedBreak" ->
                [state EXCEPT !.phase = "listen",
                              !.timeLeft = LISTEN_DURATION,
                              !.cycleCount = 1]
           [] OTHER -> state

sonicModeReducer(state, type, cycles) ==
    CASE type = "START" -> onSTART
      [] type = "STOP" -> onSTOP
      [] type = "TICK" -> onTICK(state)
      [] type = "TRANSITION" -> onTRANSITION(state, cycles)
      [] OTHER -> state

dispatchSTART ==
    /\ cycleState' = sonicModeReducer(cycleState, "START", sonicModeCycles)
    /\ phaseLog' = <<"listen">>
    /\ UNCHANGED <<timerVars, now, cueVars, displayVars, sonicModeCycles>>

dispatchSTOP ==
    /\ cycleState' = sonicModeReducer(cycleState, "STOP", sonicModeCycles)
    /\ phaseLog' = <<>>
    /\ UNCHANGED <<timerVars, now, cueVars, displayVars, sonicModeCycles>>

dispatchTICK ==
    /\ cycleState' = sonicModeReducer(cycleState, "TICK", sonicModeCycles)
    /\ UNCHANGED <<timerVars, now, cueVars, displayVars, sonicModeCycles,
                   phaseLog>>

dispatchTRANSITION ==
    /\ Len(phaseLog) < MaxLog
    /\ cycleState' =
           sonicModeReducer(cycleState, "TRANSITION", sonicModeCycles)
    /\ phaseLog' = IF cycleState.isActive
                   THEN Append(phaseLog, cycleState'.phase)
                   ELSE phaseLog
    /\ UNCHANGED <<timerVars, now, cueVars, displayVars, sonicModeCycles>>

\* the settings modal: parseInt(e.target.value) || 3
setCycles(n) ==
    /\ n # sonicModeCycles
    /\ sonicModeCycles' = n
    /\ UNCHANGED <<timerVars, now, cueVars, displayVars, cycleState, phaseLog>>

InitCycle ==
    /\ workout = WorkoutC7
    /\ settings = DefaultSettings
    /\ view = "setup"
    /\ isPaused = TRUE
    /\ now = 0
    /\ hidden = FALSE
    /\ Mounted
    /\ CuesIdle
    /\ DisplayIdle
    /\ cycleState = initialSonicModeState
    /\ sonicModeCycles \in 1..MaxCycles
    /\ phaseLog = <<>>

\* the configured number of cycles held constant
NextCycleHeld ==
    \/ dispatchSTART
    \/ dispatchSTOP
    \/ dispatchTICK
    \/ dispatchTRANSITION

SpecCycleHeld == InitCycle /\ [][NextCycleHeld]_vars

NextCycle ==
    \/ dispatchSTART
    \/ dispatchSTOP
    \/ dispatchTICK
    \/ dispatchTRANSITION
    \/ \E n \in 1..MaxCycles : setCycles(n)

SpecCycle == InitCycle /\ [][NextCycle]_vars

----------------------------------------------------------------------------
\* TimerDisplay: its own sonicModeReducer, the effects that drive it, and the
\* microphone of the listen phase

MaxCount == 4
MaxStreams == 3

BackgroundGap == 3700
\* interval callbacks that run from the start of a gap to the moment after the
\* host is back: the one callback that was due (callbacks suspended), one a
\* minute (throttled), one a second (not throttled)
GapTicks == {1, 61, BackgroundGap}

displayTICK(state) ==
    [state EXCEPT !.timeLeft = IF state.timeLeft - 1 > 0
                               THEN state.timeLeft - 1 ELSE 0]

displayTRANSITION(state) ==
    IF state.phase = "listen"
    THEN [state EXCEPT !.phase = "earRest", !.timeLeft = 600,
                       !.cycleCount = state.cycleCount + 1]
    ELSE [state EXCEPT !.phase = "listen", !.timeLeft = 3600]

displaySTART == [displayInitialState EXCEPT !.isActive = TRUE]

displaySTOP == [displayInitialState EXCEPT !.isActive = FALSE]

\* the interval callback and the effect on the render that follows it:
\* TICK, then TRANSITION if the time left is 0
afterTick(state) ==
    LET ticked == displayTICK(state)
    IN  IF ticked.timeLeft <= 0 THEN displayTRANSITION(ticked) ELSE ticked

mic == [ref |-> micStreamRef, pending |-> micPending, open |-> micOpen,
        stopped |-> micStopped, nextId |-> micNextId]

\* the cleanup of the microphone effect: stop the stream that the ref holds
micCleanup(m) ==
    IF m.ref # Null
    THEN [m EXCEPT !.ref = Null, !.open = m.open \ {m.ref},
                   !.stopped = Append(m.stopped, m.ref)]
    ELSE m

\* the microphone effect re-runs for the props and state (active, phase):
\* the cleanup of the previous run, then initAudio() in the listen phase
micEffect(m, active, phase) ==
    LET cleaned == micCleanup(m)
    IN  IF active /\ phase = "listen"
        THEN [cleaned EXCEPT !.pending = cleaned.pending \cup {cleaned.nextId},
                             !.nextId = cleaned.nextId + 1]
        ELSE cleaned

\* k interval callbacks in a row, a phase at a time; the microphone effect
\* runs at every change of phase
RECURSIVE runTicks(_, _, _)
runTicks(state, m, k) ==
    IF k < state.timeLeft
    THEN [state |-> [state EXCEPT !.timeLeft = state.timeLeft - k], mic |-> m]
    ELSE LET next == displayTRANSITION([state EXCEPT !.timeLeft = 0])
         IN  runTicks(next, micEffect(m, TRUE, next.phase), k - state.timeLeft)

\* the counters of the model stay within their bounds
Within(r) == r.state.cycleCount <= MaxCount /\ r.mic.nextId <= MaxStreams + 1

setDisplay(r) ==
    /\ sonicModeState' = r.state
    /\ micStreamRef' = r.mic.ref
    /\ micPending' = r.mic.pending
    /\ micOpen' = r.mic.open
    /\ micStopped' = r.mic.stopped
    /\ micNextId' = r.mic.nextId

\* the prop isSonicModeActive changes: START or STOP is dispatched, the
\* interval is set or cleared, the microphone effect re-runs
setSonicModeActive(b) ==
    /\ view = "timer"
    /\ b # isSonicModeActive
    /\ isSonicModeActive' = b
    /\ LET r == [state |-> IF b THEN displaySTART ELSE displaySTOP,
                 mic |-> micEffect(mic, b, "listen")]
       IN  Within(r) /\ setDisplay(r)
    /\ UNCHANGED <<timerVars, now, cueVars, cycleVars>>

\* the 1000 ms interval is set
IntervalSet == view = "timer" /\ isSonicModeActive /\ ~isPaused

\* one interval callback
sonicTick ==
    /\ IntervalSet
    /\ LET r == runTicks(sonicModeState, mic, 1)
       IN  Within(r) /\ setDisplay(r)
    /\ UNCHANGED <<timerVars, now, cueVars, cycleVars, isSonicModeActive>>

\* the host is in the background for BackgroundGap seconds and comes back:
\* k interval callbacks ran meanwhile
backgroundGap(k) ==
    /\ IntervalSet
    /\ LET r == runTicks(sonicModeState, mic, k)
       IN  Within(r) /\ setDisplay(r)
    /\ UNCHANGED <<timerVars, now, cueVars, cycleVars, isSonicModeActive>>

\* await navigator.mediaDevices.getUserMedia(...) returns the stream
getUserMediaResolves(id) ==
    /\ id \in micPending
    /\ micPending' = micPending \ {id}
    /\ micOpen' = micOpen \cup {id}
    /\ micStreamRef' = id
    /\ UNCHANGED <<timerVars, now, cueVars, cycleVars, isSonicModeActive,
                   sonicModeState, micStopped, micNextId>>

\* getUserMedia throws: the catch logs the error
getUserMediaRejects(id) ==
    /\ id \in micPending
    /\ micPending' = micPending \ {id}
    /\ UNCHANGED <<timerVars, now, cueVars, cycleVars, isSonicModeActive,
                   sonicModeState, micStreamRef, micOpen, micStopped,
                   micNextId>>

\* TimerDisplay is mounted and the workout runs
InitDisplay ==
    /\ workout = WorkoutC7
    /\ settings = DefaultSettings
    /\ view = "timer"
    /\ isPaused = FALSE
    /\ now = 0
    /\ hidden = FALSE
    /\ Mounted
    /\ SideIdle

NextDisplay ==
    \/ \E b \in BOOLEAN : setSonicModeActive(b)
    \/ sonicTick
    \/ \E k \in GapTicks : backgroundGap(k)
    \/ \E id \in 1..MaxStreams : getUserMediaResolves(id)
    \/ \E id \in 1..MaxStreams : getUserMediaRejects(id)

SpecDisplay == InitDisplay /\ [][NextDisplay]_vars

\* one second of real time: the interval callback runs if the interval is set
secondPasses ==
    /\ view = "timer"
    /\ now + 1000 <= MaxClock
    /\ now' = now + 1000
    /\ IF IntervalSet
       THEN LET r == runTicks(sonicModeState, mic, 1)
            IN  Within(r) /\ setDisplay(r)
       ELSE UNCHANGED <<sonicModeState, micVars>>
    /\ UNCHANGED <<timerVars, cueVars, cycleVars, isSonicModeActive>>

\* the protection engine beside a running workout
NextProtect ==
    \/ \E b \in BOOLEAN : setSonicModeActive(b)
    \/ secondPasses
    \/ tick
    \/ pause
    \/ resume

SpecProtect == InitDisplay /\ [][NextProtect]_vars
----------------------------------------------------------------------------
\* Definitions shared by the properties

\* the status returned by advanceTimer(S, e, now)
Adv(S, e) == advanceTimer(S, e, now, nextTransitionIdRef).status

\* the (phase, set, roundIndex) of each event of a list
Entered(events) ==
    [i \in 1..Len(events) |->
        <<events[i].phase, events[i].set, events[i].roundIndex>>]

\* the statuses entered after S, each at its full duration, up to finished
RECURSIVE chainFrom(_, _)
chainFrom(S, fuel) ==
    IF S.phase = "finished" \/ fuel = 0
    THEN <<>>
    ELSE LET n == transitionPhase([S EXCEPT !.timeLeftInPhase = 0])
         IN  <<n>> \o chainFrom(n, fuel - 1)

ChainAfter(S) == chainFrom(S, 3 * workout.sets * Len(workout.rounds) + 2)

\* seconds from S to the boundary at which the i-th status of the chain is entered
RECURSIVE boundaryOffset(_, _, _)
boundaryOffset(S, chain, i) ==
    IF i = 1 THEN S.timeLeftInPhase
    ELSE boundaryOffset(S, chain, i - 1) + chain[i - 1].totalPhaseTime

\* the boundaries lying within e seconds of S, in order
BoundariesWithin(S, e) ==
    LET chain == ChainAfter(S)
        k == Cardinality({i \in 1..Len(chain) : boundaryOffset(S, chain, i) <= e})
    IN  [i \in 1..k |->
            <<chain[i].phase, chain[i].currentSet, chain[i].currentRoundIndex>>]

RECURSIVE sumRounds(_, _)
sumRounds(rounds, n) ==
    IF n = 0 THEN 0
    ELSE rounds[n].workTime + rounds[n].restTime + sumRounds(rounds, n - 1)

\* the length of the whole run in seconds: prepare, every exercise's work and
\* rest, and a set rest after every exercise but the last
RunLength(w) ==
    PREPARE_TIME + w.sets * sumRounds(w.rounds, Len(w.rounds))
                 + (w.sets * Len(w.rounds) - 1) * w.setRestTime

\* the final exercise has a phase of non-zero length
FinalExerciseNonZero(w) ==
    w.rounds[Len(w.rounds)].workTime + w.rounds[Len(w.rounds)].restTime > 0

----------------------------------------------------------------------------
\* C1: catch-up split equivalence. From every reachable status, feeding
\* e1, e2 and e3 seconds in three successive advanceTimer calls (any of them
\* may be 0) returns the same TimerStatus as one call with e1 + e2 + e3.
C1_SplitEquivalence ==
    \A e1 \in 0..MaxSplit :
        LET s1 == Adv(status, e1) IN
        \A e2 \in 0..MaxSplit :
            LET s2 == Adv(s1, e2) IN
            \A e3 \in 0..MaxSplit : Adv(s2, e3) = Adv(status, e1 + e2 + e3)

\* a split whose parts each cross a phase boundary
C1_Witness ==
    /\ status.phase = "work"
    /\ \E e1, e2 \in 1..MaxSplit :
          /\ Adv(status, e1).phase = "rest"
          /\ Adv(Adv(status, e1), e2).phase \notin {"work", "rest"}
          /\ Adv(Adv(status, e1), e2) = Adv(status, e1 + e2)

\* C2: one advanceTimer call returns exactly one event per phase boundary that
\* lies within the e seconds, in the order the phases are entered, each with
\* the phase, set and roundIndex of the phase entered.
C2_OneEventPerBoundary ==
    \A e \in 1..MaxElapsed :
        Entered(advanceTimer(status, e, now, nextTransitionIdRef).events)
            = BoundariesWithin(status, e)

\* C3: transitionPhase follows the transition table for every phase, set and
\* round index of the workout, sets totalPhaseTime to the new timeLeftInPhase
\* and returns a finished status unchanged.
TableNext(S) ==
    LET n == Len(workout.rounds)
        final == S.currentSet = workout.sets /\ S.currentRoundIndex = n - 1
        restTime == workout.rounds[S.currentRoundIndex + 1].restTime
        to(p, t, set, idx) ==
            [phase |-> p, currentSet |-> set, currentRoundIndex |-> idx,
             timeLeftInPhase |-> t, totalPhaseTime |-> t,
             workoutCompleted |-> (p = "finished")]
        same(p, t) == to(p, t, S.currentSet, S.currentRoundIndex)
    IN  CASE S.phase = "prepare" -> to("work", workout.rounds[1].workTime, 1, 0)
          [] S.phase = "work" ->
                IF restTime > 0 THEN same("rest", restTime)
                ELSE IF ~final THEN same("set_rest", workout.setRestTime)
                ELSE same("finished", 0)
          [] S.phase = "rest" ->
                IF ~final THEN same("set_rest", workout.setRestTime)
                ELSE same("finished", 0)
          [] S.phase = "set_rest" ->
                IF S.currentRoundIndex + 1 < n
                THEN to("work", workout.rounds[S.currentRoundIndex + 2].workTime,
                        S.currentSet, S.currentRoundIndex + 1)
                ELSE IF S.currentSet + 1 <= workout.sets
                THEN to("work", workout.rounds[1].workTime, S.currentSet + 1, 0)
                ELSE same("finished", 0)
          [] S.phase = "finished" -> S

StatusesOf(w) ==
    { [phase |-> p, currentSet |-> set, currentRoundIndex |-> idx,
       timeLeftInPhase |-> t, totalPhaseTime |-> 2,
       workoutCompleted |-> (p = "finished")] :
        p \in Phases, set \in 1..w.sets, idx \in 0..(Len(w.rounds) - 1),
        t \in {0, 1} }

C3_TransitionTable ==
    \A S \in StatusesOf(workout) : transitionPhase(S) = TableNext(S)

\* a set rest whose round index wraps into the next set has been reached
C3_Witness ==
    /\ status.phase = "set_rest"
    /\ status.currentRoundIndex = Len(workout.rounds) - 1
    /\ transitionPhase(status).currentSet = status.currentSet + 1
    /\ transitionPhase(status).currentRoundIndex = 0

\* C4: in every reachable state workoutCompleted is true exactly when the
\* phase is finished.
C4_CompletedIffFinished ==
    status.workoutCompleted <=> status.phase = "finished"

\* a run has finished while the host was hidden, after the consumer took events
C4_Witness ==
    /\ status.phase = "finished"
    /\ status.workoutCompleted
    /\ delivered # <<>>
    /\ hidden

\* C5: in a run whose final exercise has a phase of non-zero length,
\* workoutCompleted is true exactly from the poll on that consumes the last
\* second of the run: it is false while fewer than RunLength seconds have been
\* fed to advanceTimer and true as soon as RunLength seconds have been fed.
C5_CompletedExactlyOnTime ==
    (view = "timer" /\ FinalExerciseNonZero(workout)) =>
        (status.workoutCompleted <=> charged >= RunLength(workout))

\* a two-set run completed by the poll that consumed exactly its last second
C5_Witness ==
    /\ workout.sets = 2
    /\ FinalExerciseNonZero(workout)
    /\ status.workoutCompleted
    /\ charged = RunLength(workout)

\* whether list a is a prefix of list b
IsPrefix(a, b) == Len(a) <= Len(b) /\ a = SubSeq(b, 1, Len(a))

\* C6 as stated: the run of the two-set example enters work(r0,s1), rest,
\* work(r1,s1), rest, set_rest, work(r0,s2), rest, work(r1,s2), rest, finished,
\* and produces 9 events in all.
SequenceC6Claimed ==
    << <<"work", 1, 0>>, <<"rest", 1, 0>>, <<"work", 1, 1>>, <<"rest", 1, 1>>,
       <<"set_rest", 1, 1>>,
       <<"work", 2, 0>>, <<"rest", 2, 0>>, <<"work", 2, 1>>, <<"rest", 2, 1>>,
       <<"finished", 2, 1>> >>

C6_AsClaimed ==
    workout = WorkoutC6 =>
        /\ IsPrefix(Entered(pendingTransitions), SequenceC6Claimed)
        /\ status.phase = "finished" => nextTransitionIdRef - 1 = 9

\* C6 amended: the run of the two-set example enters a set rest after every
\* exercise but the last, work(r0,s1), rest, set_rest, work(r1,s1), rest,
\* set_rest, work(r0,s2), rest, set_rest, work(r1,s2), rest, finished, and
\* produces 12 events in all.
SequenceC6 ==
    << <<"work", 1, 0>>, <<"rest", 1, 0>>, <<"set_rest", 1, 0>>,
       <<"work", 1, 1>>, <<"rest", 1, 1>>, <<"set_rest", 1, 1>>,
       <<"work", 2, 0>>, <<"rest", 2, 0>>, <<"set_rest", 2, 0>>,
       <<"work", 2, 1>>, <<"rest", 2, 1>>, <<"finished", 2, 1>> >>

C6_SetRestAfterEveryExercise ==
    workout = WorkoutC6 =>
        LET entered == Entered(pendingTransitions) IN
        /\ IsPrefix(entered, SequenceC6)
        /\ Len(entered) = nextTransitionIdRef - 1
        /\ status.phase = IF entered = <<>> THEN "prepare"
                          ELSE entered[Len(entered)][1]
        /\ status.phase = "finished" => nextTransitionIdRef - 1 = 12

\* the run of the two-set example is complete
C6_Witness ==
    /\ workout = WorkoutC6
    /\ status.phase = "finished"
    /\ Len(pendingTransitions) = 12

\* C7: rest is never entered for a round whose restTime is 0, and the run of
\* the one-exercise example (work 20, rest 0, set rest 0) is
\* prepare(5), work(20), finished, whatever the polls.
C7_NoRestOfLengthZero ==
    /\ status.phase = "rest" =>
            RoundAt(workout, status.currentRoundIndex).restTime > 0
    /\ \A i \in 1..Len(pendingTransitions) :
            pendingTransitions[i].phase = "rest" =>
                RoundAt(workout, pendingTransitions[i].roundIndex).restTime > 0
    /\ workout = WorkoutC7 =>
            /\ IsPrefix(Entered(pendingTransitions),
                        << <<"work", 1, 0>>, <<"finished", 1, 0>> >>)
            /\ \/ status.phase = "prepare" /\ status.totalPhaseTime = 5
               \/ status.phase = "work" /\ status.totalPhaseTime = 20
               \/ status.phase = "finished"

\* the run of the one-exercise example is complete
C7_Witness ==
    /\ workout = WorkoutC7
    /\ status.phase = "finished"
    /\ Entered(pendingTransitions) = << <<"work", 1, 0>>, <<"finished", 1, 0>> >>

\* C8: pausing clears lastUpdateRef and leftoverMsRef, and from the pause
\* until the poll that follows the first baseline taken after the resume the
\* status is the status at the moment of the pause, however long the pause
\* lasted.
C8_PauseFreezes ==
    /\ (view = "timer" /\ isPaused) => (lastUpdateRef = Null /\ leftoverMsRef = 0)
    /\ pauseMark.set => status = pauseMark.st

\* a run paused in the middle of a phase, resumed three seconds or more later
\* and polled since
C8_Witness ==
    /\ pauseMark.set
    /\ pauseMark.based
    /\ ~isPaused
    /\ now - pauseMark.at >= 3000
    /\ lastUpdateRef = now
    /\ status.timeLeftInPhase > 0
    /\ status.timeLeftInPhase < status.totalPhaseTime

\* C9: every event produced is handed to the consumer exactly once and in id
\* order: the ids handed over so far, followed by the ids still queued, are
\* 1, 2, ..., nextTransitionIdRef - 1.
C9_EveryEventHandedOnce ==
    delivered \o eventIds(pendingTransitions)
        = [i \in 1..(nextTransitionIdRef - 1) |-> i]

\* C10: after every poll, the whole seconds fed to advanceTimer since the
\* baseline plus leftoverMsRef account for all the time since the baseline.
C10_NoTimeLost ==
    [][(tick \/ (show /\ TimerActive)) => (accountedUntil' + leftoverMsRef' = now')]_vars

\* C11: poll-cadence independence. With the baseline poll at instant 0 and no
\* pause, stop or visibility change, the status after the last poll and the
\* (phase, set, roundIndex) of the events produced are those of one
\* advanceTimer call with the whole seconds between the baseline poll and the
\* last poll, however many polls were made in between and whenever.
C11_CadenceIndependence ==
    (view = "timer" /\ lastUpdateRef # Null) =>
        LET r == advanceTimer(InitialStatus, lastUpdateRef \div 1000,
                              lastUpdateRef, 1)
        IN  /\ status = r.status
            /\ Entered(pendingTransitions) = Entered(r.events)

\* a run completed by a last poll made a quarter of a second off the second,
\* the seven seconds of the run having been fed by the polls before it
C11_Witness ==
    /\ lastUpdateRef = now
    /\ leftoverMsRef = 250
    /\ charged = 7
    /\ status.workoutCompleted

\* C12: the foreground event polls in the same step. When the host becomes
\* visible again during a run that has a baseline, the status right after the
\* event is the status advanced by floor((now - baseline + leftoverMs)/1000)
\* seconds, and the events queued by the event are one per phase boundary
\* lying within that time, in order.
C12_ForegroundCatchUp ==
    [][(show /\ TimerActive /\ lastUpdateRef # Null) =>
            LET e == (now - lastUpdateRef + leftoverMsRef) \div 1000
                queued == SubSeq(pendingTransitions', Len(pendingTransitions) + 1,
                                 Len(pendingTransitions'))
            IN  /\ status' = Adv(status, e)
                /\ Entered(queued) = BoundariesWithin(status, e)]_vars

\* C13: from the stop until the next start the status is the initial prepare
\* status (set 1, round 0, 5 of 5 seconds left, not completed), the queue is
\* empty, lastUpdateRef is cleared and leftoverMsRef is 0, whatever the state
\* the run was stopped in and whatever time passes or visibility changes since.
C13_StopResets ==
    view = "setup" =>
        /\ status = [phase |-> "prepare", currentSet |-> 1, currentRoundIndex |-> 0,
                     timeLeftInPhase |-> 5, totalPhaseTime |-> 5,
                     workoutCompleted |-> FALSE]
        /\ pendingTransitions = <<>>
        /\ lastUpdateRef = Null
        /\ leftoverMsRef = 0

\* a run started, left unpaused and stopped, seen six seconds or more into the
\* session with the host hidden
C13_Witness ==
    /\ view = "setup"
    /\ ~isPaused
    /\ hidden
    /\ now >= 6000

\* C14: zero-length phases collapse within the call. The status returned by
\* an advanceTimer call with e > 0 is never a phase other than finished with
\* timeLeftInPhase = 0.
C14_ZeroLengthCollapses ==
    \A e \in 1..MaxElapsed :
        LET s == Adv(status, e)
        IN  ~(s.phase # "finished" /\ s.timeLeftInPhase = 0)

\* an hour spent in the background, in seconds
LongCatchUp == 3600

\* every iteration of the loop that does not leave it enters a phase: a run
\* has at most three phases per exercise, after prepare and before finished
IterationBound == 3 * workout.sets * Len(workout.rounds) + 3

\* C15: advanceTimer terminates. From every reachable status and for every
\* elapsed time e >= 0, short or long, the while loop leaves after at most
\* IterationBound iterations, also when work, rest and set rest times are 0.
C15_AdvanceTerminates ==
    \A e \in (0..MaxElapsed) \cup {LongCatchUp} :
        loopIterations(status, e, IterationBound) # Null

\* two sets of two exercises with every duration 0: from the zero-length work
\* phase entered after prepare, one second takes the loop through the seven
\* remaining phase changes
C15_Witness ==
    /\ workout.sets = 2
    /\ Len(workout.rounds) = 2
    /\ workout.setRestTime = 0
    /\ \A i \in 1..2 : workout.rounds[i] = Round(0, 0)
    /\ status.phase = "work"
    /\ status.currentSet = 1
    /\ status.currentRoundIndex = 0
    /\ loopIterations(status, 1, IterationBound) = 7

\* C16: a workout that violates the model invariants (sets < 1) is rejected
\* at start: the timer view is not entered, the status stays the initial
\* prepare status and no event is produced.
C16_InvalidRejected ==
    workout.sets < 1 =>
        /\ view = "setup"
        /\ status = InitialStatus
        /\ pendingTransitions = <<>>

\* C17: a poll whose clock reading is earlier than lastUpdateRef leaves the
\* status unchanged, appends no event and produces no event id.
C17_SkewIsZeroElapsed ==
    [][(\E d \in SkewSteps : skewedPoll(d)) =>
            /\ status' = status
            /\ pendingTransitions' = pendingTransitions
            /\ nextTransitionIdRef' = nextTransitionIdRef]_vars

\* a poll has read the clock more than a second earlier than the seconds
\* accounted for, in the middle of a work phase
C17_Witness ==
    /\ lastUpdateRef = now
    /\ accountedUntil >= now + 1500
    /\ status.phase = "work"
    /\ status.timeLeftInPhase > 0

\* C18: the queue consumer issues a notification or a tone for an event only
\* if the phase of the event is not finished and the run is not paused.
C18_NoOutputForFinished ==
    [][(consumeTransitions /\ rendered # <<>>) =>
            \A i \in 1..Len(issued') :
                issued'[i].phase # "finished" /\ ~renderedPaused]_vars

\* C19: when the consumer's effect runs with the run paused, every queued
\* event is removed, no notification and no tone is issued, and the status is
\* unchanged.
C19_PausedDiscards ==
    [][(consumeTransitions /\ rendered # <<>> /\ renderedPaused) =>
            /\ pendingTransitions' = <<>>
            /\ issued' = <<>>
            /\ status' = status]_vars

\* with sound and notifications on, the effect has run for a paused render
\* that held two queued events or more
C19_Witness ==
    /\ settings.soundOn
    /\ settings.notificationsOn
    /\ isPaused
    /\ renderedPaused
    /\ ~effectDue
    /\ Len(rendered) >= 2
    /\ pendingTransitions = <<>>
    /\ issued = <<>>
    /\ Len(delivered) >= Len(rendered)
    /\ SubSeq(delivered, Len(delivered) - Len(rendered) + 1, Len(delivered))
           = eventIds(rendered)

\* C20: event ids increase over any sequence of start, poll, pause, resume and
\* stop. Every event takes the value of nextTransitionIdRef as its id and
\* leaves the counter one higher, so the ids increase as long as no step
\* lowers the counter.
C20_IdsIncrease ==
    [][nextTransitionIdRef' >= nextTransitionIdRef]_vars

\* C21: in every reachable state of a run with a valid workout,
\* 1 <= currentSet <= sets, 0 <= currentRoundIndex < rounds.length and
\* 0 <= timeLeftInPhase <= totalPhaseTime.
C21_StatusInRange ==
    /\ status.currentSet >= 1
    /\ status.currentSet <= workout.sets
    /\ status.currentRoundIndex >= 0
    /\ status.currentRoundIndex < Len(workout.rounds)
    /\ status.timeLeftInPhase >= 0
    /\ status.timeLeftInPhase <= status.totalPhaseTime

\* a run of two sets of two exercises has ended, at the upper end of both
\* ranges, after the set rest that closed its first set
C21_Witness ==
    /\ workout.sets = 2
    /\ Len(workout.rounds) = 2
    /\ status.phase = "finished"
    /\ status.currentSet = 2
    /\ status.currentRoundIndex = 1
    /\ \E i \in 1..Len(pendingTransitions) :
          /\ pendingTransitions[i].phase = "set_rest"
          /\ pendingTransitions[i].set = 1
          /\ pendingTransitions[i].roundIndex = 1

\* C22: the cues requested through requestPhaseSound are serialized: each cue
\* plays at least the stagger delay (350 ms) after the cue before it, so no
\* two cues play at the same instant, however many are requested at once.
C22_CuesStaggered ==
    \A i \in 1..(Len(cuePlays) - 1) : cuePlays[i + 1] - cuePlays[i] >= 350

\* C23: in the reducer with the extendedBreak phase, a TRANSITION in an active
\* listen phase goes to extendedBreak with timeLeft 3600 if
\* cycleCount >= configuredCycles, and otherwise to earRest with timeLeft 900.
C23_ListenExpiry ==
    [][dispatchTRANSITION /\ cycleState.isActive /\ cycleState.phase = "listen"
       => IF cycleState.cycleCount >= sonicModeCycles
          THEN cycleState'.phase = "extendedBreak" /\ cycleState'.timeLeft = 3600
          ELSE cycleState'.phase = "earRest" /\ cycleState'.timeLeft = 900]_vars

\* both branches were taken: a listen phase ended in an ear rest, a later one,
\* with more cycles counted than are now configured, in an extended break
C23_Witness ==
    /\ cycleState.phase = "extendedBreak"
    /\ cycleState.cycleCount > sonicModeCycles
    /\ \E i \in 1..Len(phaseLog) : phaseLog[i] = "earRest"

\* C24: in the reducer with the extendedBreak phase, cycleCount is incremented
\* by 1 exactly on the listen -> earRest transition and is unchanged on the
\* earRest -> listen transition, which resets timeLeft to 3600.
C24_CountedOnEarRest ==
    [][dispatchTRANSITION /\ cycleState.isActive
       => /\ (cycleState.phase = "listen" /\ cycleState'.phase = "earRest"
                => cycleState'.cycleCount = cycleState.cycleCount + 1)
          /\ (cycleState.phase = "earRest"
                => /\ cycleState'.phase = "listen"
                   /\ cycleState'.timeLeft = 3600
                   /\ cycleState'.cycleCount = cycleState.cycleCount)]_vars

\* the phase the claimed pattern has at position i, for n configured cycles:
\* (listen, earRest) n - 1 times, then listen, extendedBreak, and again
ExpectedPhase(n, i) ==
    LET k == ((i - 1) % (2 * n)) + 1
    IN  IF k % 2 = 1 THEN "listen"
        ELSE IF k = 2 * n THEN "extendedBreak" ELSE "earRest"

\* C25: with the configured number of cycles N >= 1 held constant, the phases
\* entered from START on are (listen, earRest) N - 1 times, then listen,
\* extendedBreak, then listen with cycleCount reset to 1, and again; for N = 3:
\* listen, earRest, listen, earRest, listen, extendedBreak, listen.
C25_PhaseSequence ==
    cycleState.isActive =>
        /\ \A i \in 1..Len(phaseLog) :
               phaseLog[i] = ExpectedPhase(sonicModeCycles, i)
        /\ cycleState.phase = phaseLog[Len(phaseLog)]
        /\ Len(phaseLog) % (2 * sonicModeCycles) = 1
               => cycleState.cycleCount = 1
        /\ sonicModeCycles = 3 /\ Len(phaseLog) >= 7
               => SubSeq(phaseLog, 1, 7) =
                      <<"listen", "earRest", "listen", "earRest", "listen",
                        "extendedBreak", "listen">>

\* three cycles configured: the listen phase after the extended break
C25_Witness ==
    /\ sonicModeCycles = 3
    /\ Len(phaseLog) = 7
    /\ phaseLog[6] = "extendedBreak"
    /\ cycleState.phase = "listen"
    /\ cycleState.cycleCount = 1

\* C28: in the reducer with the extendedBreak phase, START from any state
\* yields {listen, 3600, cycleCount 1, active}, STOP from any state yields the
\* inactive default state, and while inactive TICK and TRANSITION leave the
\* state unchanged.
C28_StartStop ==
    [][/\ dispatchSTART
           => cycleState' = [isActive |-> TRUE, phase |-> "listen",
                             timeLeft |-> 3600, cycleCount |-> 1]
       /\ dispatchSTOP
           => ~cycleState'.isActive /\ cycleState' = initialSonicModeState
       /\ ~cycleState.isActive /\ (dispatchTICK \/ dispatchTRANSITION)
           => cycleState' = cycleState]_vars

\* a START has acted and nothing since
C28_Witness ==
    /\ phaseLog = <<"listen">>
    /\ cycleState.isActive
    /\ cycleState.timeLeft = 3600

\* C29: cycleCount >= 1 in every reachable state of the reducer with the
\* extendedBreak phase, the initial state and the state after STOP included,
\* and timeLeft is never negative.
C29_CountAtLeastOne ==
    /\ cycleState.cycleCount >= 1
    /\ cycleState.timeLeft >= 0

\* C26: if 3700 seconds of real time pass while the protection engine is in a
\* listen phase with 3600 s left, the host in the background, then once the host
\* is back the engine has made exactly one transition and the time left of the
\* new phase is its duration less the 100 seconds of overflow.
C26_GapCrossesOneBoundary ==
    [][/\ \E k \in GapTicks : backgroundGap(k)
       /\ sonicModeState.phase = "listen"
       /\ sonicModeState.timeLeft = 3600
       => /\ sonicModeState'.phase = "earRest"
          /\ sonicModeState'.cycleCount = sonicModeState.cycleCount + 1
          /\ sonicModeState'.timeLeft = 600 - 100]_vars

\* C27: the protection cycle is independent of the workout timer: while it is
\* active every second of real time, a second of a workout pause included,
\* takes its countdown on, pausing and resuming the workout do not alter it,
\* and a change of the workout's phase never changes its state.
C27_IndependentOfWorkout ==
    [][/\ secondPasses /\ isSonicModeActive /\ sonicModeState.isActive
           => sonicModeState' = afterTick(sonicModeState)
       /\ pause \/ resume => sonicModeState' = sonicModeState
       /\ status'.phase # status.phase
           => sonicModeState' = sonicModeState]_vars

\* C30: whenever the protection cycle is inactive or not in the listen phase
\* no microphone stream is held, also when the listen phase ended before
\* getUserMedia completed, and no stream is released twice.
C30_NoStreamOutsideListen ==
    /\ ~isSonicModeActive \/ sonicModeState.phase # "listen" => micOpen = {}
    /\ \A i, j \in 1..Len(micStopped) : micStopped[i] = micStopped[j] => i = j

\* the phases of exercise k (counted from 1 over all sets) in the timeline:
\* work, rest if restTime > 0, set_rest unless it is the final exercise
ExercisePhases(w, k) ==
    LET n == Len(w.rounds)
        set == ((k - 1) \div n) + 1
        idx == (k - 1) % n
        entry(p, d) == [phase |-> p, set |-> set, roundIndex |-> idx, dur |-> d]
    IN  <<entry("work", w.rounds[idx + 1].workTime)>>
        \o (IF w.rounds[idx + 1].restTime > 0
            THEN <<entry("rest", w.rounds[idx + 1].restTime)>> ELSE <<>>)
        \o (IF k < w.sets * n THEN <<entry("set_rest", w.setRestTime)>> ELSE <<>>)

RECURSIVE exercisesUpTo(_, _)
exercisesUpTo(w, k) ==
    IF k = 0 THEN <<>> ELSE exercisesUpTo(w, k - 1) \o ExercisePhases(w, k)

\* the concatenated timeline of a run
Timeline(w) ==
    <<[phase |-> "prepare", set |-> 1, roundIndex |-> 0, dur |-> 5]>>
    \o exercisesUpTo(w, w.sets * Len(w.rounds))

\* the offset at which the i-th phase of a timeline ends
RECURSIVE endOffset(_, _)
endOffset(tl, i) == IF i = 0 THEN 0 ELSE endOffset(tl, i - 1) + tl[i].dur

\* every phase of the timeline lasts a second or more
PositiveDurations(w) ==
    /\ w.setRestTime >= 1
    /\ \A i \in 1..Len(w.rounds) : w.rounds[i].workTime >= 1

\* C31: for a valid workout whose phases all last a second or more, after t
\* whole seconds fed to advanceTimer since the initial prepare status, in any
\* number of calls, the status is the phase of the timeline that contains
\* offset t, with timeLeftInPhase = the end offset of that phase - t, and it is
\* finished once t reaches the length of the timeline.
C31_TimelinePosition ==
    (view = "timer" /\ PositiveDurations(workout)) =>
        LET tl == Timeline(workout)
            total == endOffset(tl, Len(tl))
        IN  IF charged >= total
            THEN status.phase = "finished"
            ELSE \E i \in 1..Len(tl) :
                    /\ endOffset(tl, i - 1) <= charged
                    /\ charged < endOffset(tl, i)
                    /\ status.phase = tl[i].phase
                    /\ status.currentSet = tl[i].set
                    /\ status.currentRoundIndex = tl[i].roundIndex
                    /\ status.timeLeftInPhase = endOffset(tl, i) - charged
                    /\ status.totalPhaseTime = tl[i].dur
                    /\ ~status.workoutCompleted

\* the start of the set rest between the two sets of a run whose first
\* exercise has a rest and whose second has none, five events after the start
C31_Witness ==
    /\ PositiveDurations(workout)
    /\ workout.sets = 2
    /\ Len(workout.rounds) = 2
    /\ workout.rounds[1].restTime = 1
    /\ workout.rounds[2].restTime = 0
    /\ status.phase = "set_rest"
    /\ status.currentSet = 1
    /\ status.currentRoundIndex = 1
    /\ charged = 5 + 2 + 1 + 1 + 2
    /\ Len(pendingTransitions) = 5

\* C32: in one advanceTimer(S, e, now) call the event of a boundary is stamped
\* occurredAt = now - e * 1000 + 1000 * (seconds the call consumed before that
\* boundary); so every stamp lies in [now - e * 1000, now], the stamps never
\* decrease along the list, and they increase strictly across a phase of
\* positive duration.
C32_StampIsBoundaryInstant ==
    \A e \in 1..MaxElapsed :
        LET events == advanceTimer(status, e, now, nextTransitionIdRef).events
            chain == ChainAfter(status)
        IN  /\ \A i \in 1..Len(events) :
                  /\ events[i].occurredAt =
                         now - e * 1000 + 1000 * boundaryOffset(status, chain, i)
                  /\ events[i].occurredAt >= now - e * 1000
                  /\ events[i].occurredAt <= now
            /\ \A i \in 1..(Len(events) - 1) :
                  /\ events[i].occurredAt <= events[i + 1].occurredAt
                  /\ chain[i].totalPhaseTime > 0
                        => events[i].occurredAt < events[i + 1].occurredAt

\* after an earlier call produced events, a call is due that crosses a phase
\* of length zero and one of positive length
C32_Witness ==
    /\ pendingTransitions # <<>>
    /\ status.timeLeftInPhase > 0
    /\ \E e \in 1..MaxElapsed :
          LET events == advanceTimer(status, e, now, nextTransitionIdRef).events
          IN  /\ Len(events) >= 3
              /\ \E i, j \in 1..(Len(events) - 1) :
                    /\ events[i].occurredAt = events[i + 1].occurredAt
                    /\ events[j].occurredAt < events[j + 1].occurredAt

\* C33: across the successive polls of one run with a non-decreasing clock,
\* the events taken in id (queue) order have non-decreasing occurredAt: an
\* event of a later poll is never stamped earlier than an event of an earlier
\* poll, also when the later poll begins by collapsing a phase of length zero.
C33_StampsOrderedAcrossPolls ==
    \A i \in 1..(Len(pendingTransitions) - 1) :
        pendingTransitions[i].occurredAt <= pendingTransitions[i + 1].occurredAt

\* C34: finished is terminal and absorbing: once the phase is finished,
\* transitionPhase returns the identical status, advanceTimer returns the
\* status unchanged and no events for every e, and until the stop no poll,
\* hide, show, pause or resume changes the status or produces an event.
C34_FinishedAbsorbing ==
    /\ [](status.phase = "finished" =>
            /\ transitionPhase(status) = status
            /\ \A e \in 0..MaxElapsed :
                  LET r == advanceTimer(status, e, now, nextTransitionIdRef)
                  IN  r.status = status /\ r.events = <<>>)
    /\ [][status.phase = "finished" /\ view' = "timer" =>
            /\ status' = status
            /\ nextTransitionIdRef' = nextTransitionIdRef
            /\ Len(pendingTransitions') <= Len(pendingTransitions)]_vars

\* a finished run that was then paused while the host was hidden, later than
\* the poll that finished it
C34_Witness ==
    /\ view = "timer"
    /\ status.phase = "finished"
    /\ isPaused
    /\ hidden
    /\ lastUpdateRef = Null
    /\ now > accountedUntil

\* C35: when 0 < e < timeLeftInPhase, advanceTimer returns a status that
\* differs from its input only in timeLeftInPhase, reduced by exactly e, and
\* returns no events.
C35_PartialDecrementFrame ==
    \A e \in 1..MaxElapsed :
        e < status.timeLeftInPhase =>
            LET r == advanceTimer(status, e, now, nextTransitionIdRef)
            IN  /\ r.events = <<>>
                /\ r.nextId = nextTransitionIdRef
                /\ r.status.timeLeftInPhase = status.timeLeftInPhase - e
                /\ r.status.phase = status.phase
                /\ r.status.currentSet = status.currentSet
                /\ r.status.currentRoundIndex = status.currentRoundIndex
                /\ r.status.totalPhaseTime = status.totalPhaseTime
                /\ r.status.workoutCompleted = status.workoutCompleted

\* a phase entered by an earlier call and partly consumed by a later one, with
\* more than a second of it left
C35_Witness ==
    /\ pendingTransitions # <<>>
    /\ status.timeLeftInPhase < status.totalPhaseTime
    /\ status.timeLeftInPhase > 1

\* C36: the protection engine that TimerDisplay runs forces an extended break
\* every sonicModeCycles cycles: after that many listen phases the count of
\* cycles returns to 1, so cycleCount never exceeds sonicModeCycles.
C36_CountWithinCycles ==
    isSonicModeActive => sonicModeState.cycleCount <= sonicModeCycles

\* the event belongs to the final exercise of the final set
OfFinalExercise(event) ==
    event.set = workout.sets /\ event.roundIndex = Len(workout.rounds) - 1

\* C37: in a run of a valid workout from the initial prepare status the
\* set_rest -> finished branch is never taken: finished is entered only from
\* the work phase of the final exercise of the final set, its restTime being 0,
\* or from its rest phase, and set_rest never follows the final exercise.
C37_FinishedFromWorkOrRest ==
    /\ status.phase = "set_rest" =>
          ~(/\ status.currentSet = workout.sets
            /\ status.currentRoundIndex = Len(workout.rounds) - 1)
    /\ \A i \in 1..Len(pendingTransitions) :
          LET event == pendingTransitions[i] IN
          /\ event.phase = "set_rest" => ~OfFinalExercise(event)
          /\ event.phase = "finished" =>
                /\ i > 1
                /\ pendingTransitions[i - 1].phase \in {"work", "rest"}
                /\ OfFinalExercise(pendingTransitions[i - 1])
                /\ pendingTransitions[i - 1].phase = "work" =>
                      RoundAt(workout, event.roundIndex).restTime = 0

\* a two-set run finished from the work phase of its final exercise, after a
\* set rest that wrapped into the second set
C37_Witness ==
    /\ workout.sets = 2
    /\ status.phase = "finished"
    /\ Len(pendingTransitions) >= 3
    /\ pendingTransitions[Len(pendingTransitions)].phase = "finished"
    /\ pendingTransitions[Len(pendingTransitions) - 1].phase = "work"
    /\ \E i \in 1..Len(pendingTransitions) :
          /\ pendingTransitions[i].phase = "set_rest"
          /\ pendingTransitions[i].set = 1
          /\ pendingTransitions[i].roundIndex = Len(workout.rounds) - 1

\* the rank of a phase within its exercise
PhaseRank(p) ==
    CASE p = "work" -> 1 [] p = "rest" -> 2 [] p = "set_rest" -> 3
      [] p = "finished" -> 4 [] OTHER -> 0

\* (set, roundIndex, rank) of event a comes before that of event b
Precedes(a, b) ==
    \/ a.set < b.set
    \/ a.set = b.set /\ a.roundIndex < b.roundIndex
    \/ /\ a.set = b.set
       /\ a.roundIndex = b.roundIndex
       /\ PhaseRank(a.phase) < PhaseRank(b.phase)

IsWork(event) == event.phase = "work"

\* the exercises of a run in set-then-round order
ExercisesInOrder(w) ==
    [k \in 1..(w.sets * Len(w.rounds)) |->
        <<((k - 1) \div Len(w.rounds)) + 1, (k - 1) % Len(w.rounds)>>]

\* C38: every phase transition advances the run: (currentSet,
\* currentRoundIndex, rank of the phase within the exercise) increases
\* lexicographically from each event to the next, and over a complete run the
\* work phase of each exercise is entered exactly once, in set-then-round
\* order, whatever elapsed values the polls feed.
C38_LexicographicProgress ==
    /\ \A i \in 1..(Len(pendingTransitions) - 1) :
          Precedes(pendingTransitions[i], pendingTransitions[i + 1])
    /\ status.phase = "finished" =>
          LET works == SelectSeq(pendingTransitions, IsWork)
          IN  [k \in 1..Len(works) |-> <<works[k].set, works[k].roundIndex>>]
                  = ExercisesInOrder(workout)

\* a complete run of two sets of two exercises with a phase of length zero,
\* whose event carries the stamp of the event before it
C38_Witness ==
    /\ workout.sets = 2
    /\ Len(workout.rounds) = 2
    /\ status.phase = "finished"
    /\ Len(SelectSeq(pendingTransitions, IsWork)) = 4
    /\ \E i \in 1..(Len(pendingTransitions) - 1) :
          /\ pendingTransitions[i].occurredAt = pendingTransitions[i + 1].occurredAt
          /\ pendingTransitions[i].phase # pendingTransitions[i + 1].phase

====
